---- MODULE Spec2Model ----
(***************************************************************************)
(* Software (bit-banged) I2C bus master, Core/Src/soft_i2c.c.              *)
(*                                                                         *)
(* The master owns two open-drain pins.  A pin level of TRUE means the pin *)
(* is released (floats, pulled high), FALSE means it is driven low.        *)
(* Every step of the model is one pin write of the source, together with   *)
(* the i2c_delay_us() that precedes it (a delay changes no pin) and the    *)
(* pin read that follows it, if any.  i2c_delay_us() itself is modelled    *)
(* tick by tick in SpecDelay.                                              *)
(***************************************************************************)
EXTENDS Integers, Sequences, FiniteSets, TLC

VARIABLES
  scl,          \* level the master writes on SCL (TRUE released, FALSE low)
  sda,          \* level the master writes on SDA
  slave,        \* level the slave puts on SDA (TRUE released, FALSE low)
  sreg,         \* levels the slave will present on the next read clocks
  trace,        \* log of the pin writes of the current call
  pc,           \* position in the calling function
  fn,           \* position in soft_i2c_start/stop/write8/read8, or "none"
  args,         \* arguments of the current call
  write_count,  \* i2c_write_read: remaining bytes to write
  wptr,         \* i2c_write_read: write_data, as an index into args.wbuf
  read_count,   \* i2c_write_read: remaining bytes to read
  rptr,         \* i2c_write_read: read_data, as an index into rbuf
  rbuf,         \* the caller's read buffer
  rc,           \* i2c_device_ready: rc
  ret,          \* value returned by the last completed call (-1: none)
  i,            \* loop counter of write8 / read8
  data_byte,    \* data_byte of write8 / read8
  ack,          \* write8: sampled ACK level (its return value)
  ackarg,       \* read8: parameter ack
  CNT,          \* TIM4->CNT, free running 16 bit counter
  start_us,     \* i2c_delay_us: start_us
  delay_us,     \* i2c_delay_us: parameter
  elapsed,      \* counter ticks since start_us was read
  dpc,          \* position in i2c_delay_us
  stretch,      \* TRUE while a slave holds the SCL line low
  spc,          \* position in cl_i2c_scan ("off": no scan running)
  scan_addr,    \* cl_i2c_scan: addr
  probed,       \* addresses cl_i2c_scan has passed to i2c_device_ready
  cells,        \* table cells cl_i2c_scan has printed, <<address, kind>>
  devices       \* addresses of the slaves on the bus during a scan

busv  == <<scl, sda, slave, sreg, trace>>
callv == <<args, write_count, wptr, read_count, rptr, rbuf, rc, ret>>
primv == <<i, data_byte, ack, ackarg>>
dlyv  == <<CNT, start_us, delay_us, elapsed, dpc>>
scanv == <<spc, scan_addr, probed, cells, devices>>
vars  == <<scl, sda, slave, sreg, trace, pc, fn, args, write_count, wptr,
           read_count, rptr, rbuf, rc, ret, i, data_byte, ack, ackarg,
           CNT, start_us, delay_us, elapsed, dpc,
           stretch, spc, scan_addr, probed, cells, devices>>

(***************************************************************************)
(* Bounds of the model                                                     *)
(***************************************************************************)
MaxWrite   == 2     \* longest write buffer
MaxRead    == 1     \* longest read buffer
MaxDelay   == 6     \* longest delay requested from i2c_delay_us
MaxElapsed == 9     \* ticks followed after start_us was read

Byte       == 0..255
Addr7      == 0..127
AddrSet    == {3, 104, 119}          \* 0x03, DS3231 0x68, 0x77
WriteBytes == {0, 165}               \* 0x00, 0xA5
SlaveBytes == {90, 255}              \* 0x5A, 0xFF
StartSet   == {0, 1, 1000, 65529, 65530, 65531, 65532, 65533, 65534, 65535}

\* program constants, soft_i2c.h
I2C_ADDRESS_MIN == 3
I2C_ADDRESS_MAX == 119
DS3231_ADDRESS  == 104

(***************************************************************************)
(* Helpers                                                                 *)
(***************************************************************************)
Pow2(n) == 2^n
\* bit k of byte b (k = 0 is the least significant bit)
Bit(b, k) == (b \div Pow2(k)) % 2
Lvl(b) == IF b THEN "1" ELSE "0"
\* the eight levels of byte b, most significant bit first
Bits(b) == [k \in 1..8 |-> Bit(b, 8 - k) = 1]
Last(s) == s[Len(s)]

\* uint8_t truncation of an int
U8(x) == x % 256

\* data_byte & 0x80
Msb_m(b) == b % 2 = 1
Msb(b) == b >= 128

\* data_byte <<= 1 on a uint8_t
Shl8(b) == U8(b * 2)

\* data_byte <<= 1; if (sda) data_byte |= 1;
ShiftIn_m(b, lvl) == (b \div 2) + (IF lvl THEN 128 ELSE 0)
ShiftIn(b, lvl) == Shl8(b) + (IF lvl THEN 1 ELSE 0)

\* i2c_address << 1, passed as uint8_t
AddrW_m(a) == U8(a * 2 + 1)
AddrW(a) == U8(a * 2)
\* (i2c_address << 1) | 1, passed as uint8_t
AddrR_m(a) == U8(a * 2)
AddrR(a) == U8(a * 2 + 1)

\* loop conditions of write8 / read8: i < 8
w8_more_m(n) == n < 7
w8_more(n) == n < 8
r8_more_m(n) == n < 7
r8_more(n) == n < 8

\* if (write_data && write_count) / if (read_data && read_count)
HasWrite_m(isnull, cnt) == ~isnull
HasWrite(isnull, cnt) == (~isnull) /\ cnt # 0
HasRead(isnull, cnt) == (~isnull) /\ cnt # 0

\* return !rc;  as the C value 0 or 1
NotRc_m(r) == IF r THEN 1 ELSE 0
NotRc(r) == IF r THEN 0 ELSE 1

(***************************************************************************)
(* Pin driver.  Each write is logged:                                      *)
(*   "S"  SDA driven low while SCL is released   (START condition)         *)
(*   "P"  SDA released while SCL is released     (STOP condition)          *)
(*   "x"  SDA written, level unchanged, while SCL is released              *)
(*   "d"  SDA written while SCL is low                                     *)
(*   "r"  SCL released from low;  "h" SCL released again                   *)
(*   "0","1"  SCL driven low after a high phase in which SDA was not       *)
(*        written: the level of the SDA line during that high phase        *)
(*   "f"  SCL driven low after a high phase in which SDA was written       *)
(*   "l"  SCL driven low again                                             *)
(***************************************************************************)
soft_i2c_scl_write(pinstate) ==
  /\ scl' = pinstate
  /\ sda' = sda
  /\ trace' = Append(trace,
       IF pinstate
       THEN (IF scl THEN "h" ELSE "r")
       ELSE (IF scl
             THEN (IF trace # <<>> /\ Last(trace) = "r"
                   THEN Lvl(sda /\ slave) ELSE "f")
             ELSE "l"))

soft_i2c_sda_write(pinstate) ==
  /\ sda' = pinstate
  /\ scl' = scl
  /\ trace' = Append(trace,
       IF scl
       THEN (IF sda # pinstate THEN (IF pinstate THEN "P" ELSE "S") ELSE "x")
       ELSE "d")

\* level read on the SCL pin: low if either side drives it low.  No
\* function of soft_i2c.c calls it.
soft_i2c_scl_read == scl /\ ~stretch

\* level read on the SDA pin: low if either side drives it low
soft_i2c_sda_read(slv) == sda /\ slv

(***************************************************************************)
(* soft_i2c_start                                                          *)
(***************************************************************************)
start_sda ==
  /\ fn = "start_sda"
  /\ soft_i2c_sda_write(FALSE)
  /\ fn' = "start_scl"
  /\ UNCHANGED <<slave, sreg, pc, callv, primv, dlyv, scanv, stretch>>

start_scl_m ==
  /\ fn = "start_scl"
  /\ soft_i2c_scl_write(TRUE)
  /\ fn' = "none"
  /\ UNCHANGED <<slave, sreg, pc, callv, primv, dlyv, scanv, stretch>>

start_scl ==
  /\ fn = "start_scl"
  /\ soft_i2c_scl_write(FALSE)
  /\ fn' = "none"
  /\ UNCHANGED <<slave, sreg, pc, callv, primv, dlyv, scanv, stretch>>

(***************************************************************************)
(* soft_i2c_stop                                                           *)
(***************************************************************************)
stop_sda ==
  /\ fn = "stop_sda"
  /\ soft_i2c_sda_write(FALSE)
  /\ fn' = "stop_scl"
  /\ UNCHANGED <<slave, sreg, pc, callv, primv, dlyv, scanv, stretch>>

stop_scl_m ==
  /\ fn = "stop_scl"
  /\ soft_i2c_scl_write(FALSE)
  /\ fn' = "stop_sda2"
  /\ UNCHANGED <<slave, sreg, pc, callv, primv, dlyv, scanv, stretch>>

stop_scl ==
  /\ fn = "stop_scl"
  /\ soft_i2c_scl_write(TRUE)
  /\ fn' = "stop_sda2"
  /\ UNCHANGED <<slave, sreg, pc, callv, primv, dlyv, scanv, stretch>>

stop_sda2_m ==
  /\ fn = "stop_sda2"
  /\ soft_i2c_sda_write(FALSE)
  /\ fn' = "none"
  /\ UNCHANGED <<slave, sreg, pc, callv, primv, dlyv, scanv, stretch>>

stop_sda2 ==
  /\ fn = "stop_sda2"
  /\ soft_i2c_sda_write(TRUE)
  /\ fn' = "none"
  /\ UNCHANGED <<slave, sreg, pc, callv, primv, dlyv, scanv, stretch>>

(***************************************************************************)
(* soft_i2c_write8                                                         *)
(***************************************************************************)
w8_bit ==
  /\ fn = "w8_bit"
  /\ soft_i2c_sda_write(Msb(data_byte))
  /\ data_byte' = Shl8(data_byte)
  /\ fn' = "w8_high"
  /\ UNCHANGED <<slave, sreg, pc, callv, i, ack, ackarg, dlyv, scanv, stretch>>

w8_high ==
  /\ fn = "w8_high"
  /\ soft_i2c_scl_write(TRUE)
  /\ fn' = "w8_low"
  /\ UNCHANGED <<slave, sreg, pc, callv, primv, dlyv, scanv, stretch>>

w8_low_m ==
  /\ fn = "w8_low"
  /\ soft_i2c_scl_write(TRUE)
  /\ i' = i + 1
  /\ fn' = IF w8_more(i + 1) THEN "w8_bit" ELSE "w8_rel"
  /\ UNCHANGED <<slave, sreg, pc, callv, data_byte, ack, ackarg, dlyv, scanv, stretch>>

\* a master that supported clock stretching would wait here for SCL to rise
w8_low_wait ==
  /\ fn = "w8_low"
  /\ soft_i2c_scl_read
  /\ soft_i2c_scl_write(FALSE)
  /\ i' = i + 1
  /\ fn' = IF w8_more(i + 1) THEN "w8_bit" ELSE "w8_rel"
  /\ UNCHANGED <<slave, sreg, pc, callv, data_byte, ack, ackarg, dlyv, scanv, stretch>>

w8_low ==
  /\ fn = "w8_low"
  /\ soft_i2c_scl_write(FALSE)
  /\ i' = i + 1
  /\ fn' = IF w8_more(i + 1) THEN "w8_bit" ELSE "w8_rel"
  /\ UNCHANGED <<slave, sreg, pc, callv, data_byte, ack, ackarg, dlyv, scanv, stretch>>

w8_rel ==
  /\ fn = "w8_rel"
  /\ soft_i2c_sda_write(TRUE)
  /\ fn' = "w8_ackhigh"
  /\ UNCHANGED <<slave, sreg, pc, callv, primv, dlyv, scanv, stretch>>

\* levels a slave may put on SDA in the ACK clock of an address byte: any,
\* unless a scan runs on a bus with a known set of devices; then SDA is
\* pulled low exactly by the device that has the address
SlaveAck ==
  IF spc = "off" THEN BOOLEAN ELSE {args.addr \notin devices}

\* the slave answers on the ninth clock: it pulls SDA low (ACK) or not
w8_ackhigh ==
  /\ fn = "w8_ackhigh"
  /\ soft_i2c_scl_write(TRUE)
  /\ \E lvl \in SlaveAck :
       /\ slave' = lvl
       /\ ack' = soft_i2c_sda_read(lvl)
  /\ fn' = "w8_acklow"
  /\ UNCHANGED <<sreg, pc, callv, i, data_byte, ackarg, dlyv, scanv, stretch>>

w8_acklow ==
  /\ fn = "w8_acklow"
  /\ soft_i2c_scl_write(FALSE)
  /\ slave' = TRUE
  /\ fn' = "none"
  /\ UNCHANGED <<sreg, pc, callv, primv, dlyv, scanv, stretch>>

(***************************************************************************)
(* soft_i2c_read8                                                          *)
(***************************************************************************)
r8_rel_m ==
  /\ fn = "r8_rel"
  /\ data_byte' = 0
  /\ i' = 0
  /\ soft_i2c_sda_write(FALSE)
  /\ fn' = "r8_high"
  /\ UNCHANGED <<slave, sreg, pc, callv, ack, ackarg, dlyv, scanv, stretch>>

r8_rel ==
  /\ fn = "r8_rel"
  /\ data_byte' = 0
  /\ i' = 0
  /\ soft_i2c_sda_write(TRUE)
  /\ fn' = "r8_high"
  /\ UNCHANGED <<slave, sreg, pc, callv, ack, ackarg, dlyv, scanv, stretch>>

\* the slave presents its next level; the master samples it with SCL high
r8_high ==
  /\ fn = "r8_high"
  /\ soft_i2c_scl_write(TRUE)
  /\ slave' = Head(sreg)
  /\ sreg' = Tail(sreg)
  /\ data_byte' = ShiftIn(data_byte, soft_i2c_sda_read(Head(sreg)))
  /\ fn' = "r8_low"
  /\ UNCHANGED <<pc, callv, i, ack, ackarg, dlyv, scanv, stretch>>

r8_low ==
  /\ fn = "r8_low"
  /\ soft_i2c_scl_write(FALSE)
  /\ slave' = TRUE
  /\ i' = i + 1
  /\ fn' = IF r8_more(i + 1) THEN "r8_high" ELSE "r8_ack"
  /\ UNCHANGED <<sreg, pc, callv, data_byte, ack, ackarg, dlyv, scanv, stretch>>

r8_ack_m ==
  /\ fn = "r8_ack"
  /\ soft_i2c_sda_write(TRUE)
  /\ fn' = "r8_ackhigh"
  /\ UNCHANGED <<slave, sreg, pc, callv, primv, dlyv, scanv, stretch>>

r8_ack ==
  /\ fn = "r8_ack"
  /\ soft_i2c_sda_write(ackarg)
  /\ fn' = "r8_ackhigh"
  /\ UNCHANGED <<slave, sreg, pc, callv, primv, dlyv, scanv, stretch>>

r8_ackhigh ==
  /\ fn = "r8_ackhigh"
  /\ soft_i2c_scl_write(TRUE)
  /\ fn' = "r8_acklow"
  /\ UNCHANGED <<slave, sreg, pc, callv, primv, dlyv, scanv, stretch>>

r8_acklow ==
  /\ fn = "r8_acklow"
  /\ soft_i2c_scl_write(FALSE)
  /\ fn' = "none"
  /\ UNCHANGED <<slave, sreg, pc, callv, primv, dlyv, scanv, stretch>>

(***************************************************************************)
(* Calling a primitive: the caller sets the callee's entry point and its   *)
(* own continuation; it resumes when the callee has set fn back to "none". *)
(***************************************************************************)
NoArgs == [op |-> "none", addr |-> 0, wnull |-> TRUE, wbuf |-> <<>>,
           wcount |-> 0, rnull |-> TRUE, rcount |-> 0, byte |-> 0]

\* sequences over S of length exactly n
RECURSIVE SeqsOfLen(_, _)
SeqsOfLen(S, n) ==
  IF n = 0 THEN {<<>>}
  ELSE {Append(t, x) : t \in SeqsOfLen(S, n - 1), x \in S}

\* a call starts with fresh locals: those of the calls before it are gone
NoLocals ==
  /\ rc' = FALSE
  /\ i' = 0 /\ data_byte' = 0 /\ ack' = FALSE /\ ackarg' = FALSE

(***************************************************************************)
(* i2c_device_ready(i2c_address)                                           *)
(***************************************************************************)
call_device_ready ==
  /\ pc = "idle"
  /\ \E a \in Addr7 :
       args' = [NoArgs EXCEPT !.op = "ready", !.addr = a]
  /\ pc' = "dr_start"
  /\ trace' = <<>>
  /\ ret' = -1
  /\ NoLocals
  /\ write_count' = 0 /\ read_count' = 0 /\ wptr' = 1 /\ rptr' = 1
  /\ rbuf' = <<>>
  /\ UNCHANGED <<scl, sda, slave, sreg, fn, dlyv, scanv, stretch>>

dr_start ==
  /\ pc = "dr_start" /\ fn = "none"
  /\ fn' = "start_sda"
  /\ pc' = "dr_write"
  /\ UNCHANGED <<busv, callv, primv, dlyv, scanv, stretch>>

dr_write ==
  /\ pc = "dr_write" /\ fn = "none"
  /\ data_byte' = AddrW(args.addr)
  /\ i' = 0
  /\ fn' = "w8_bit"
  /\ pc' = "dr_stop"
  /\ UNCHANGED <<busv, callv, ack, ackarg, dlyv, scanv, stretch>>

dr_stop ==
  /\ pc = "dr_stop" /\ fn = "none"
  /\ rc' = ack
  /\ fn' = "stop_sda"
  /\ pc' = "dr_ret"
  /\ UNCHANGED <<busv, args, write_count, wptr, read_count, rptr, rbuf, ret,
                 primv, dlyv, scanv, stretch>>

dr_ret ==
  /\ pc = "dr_ret" /\ fn = "none"
  /\ ret' = NotRc(rc)
  /\ pc' = "idle"
  /\ UNCHANGED <<busv, fn, args, write_count, wptr, read_count, rptr, rbuf,
                 rc, primv, dlyv, scanv, stretch>>

(***************************************************************************)
(* i2c_write_read(i2c_address, write_data, write_count, read_data,         *)
(*                read_count)                                              *)
(* A NULL buffer is args.wnull / args.rnull; a buffer that is not NULL     *)
(* holds as many bytes as its count says.                                  *)
(***************************************************************************)
call_write_read ==
  /\ pc = "idle"
  /\ \E a \in AddrSet, wn \in BOOLEAN, wc \in 0..MaxWrite,
        rn \in BOOLEAN, rcnt \in 0..MaxRead :
       \E wb \in (IF wn THEN {<<>>} ELSE SeqsOfLen(WriteBytes, wc)) :
         /\ args' = [NoArgs EXCEPT !.op = "wr", !.addr = a, !.wnull = wn,
                       !.wbuf = wb, !.wcount = wc, !.rnull = rn,
                       !.rcount = rcnt]
         /\ write_count' = wc
         /\ read_count' = rcnt
         /\ rbuf' = IF rn THEN <<>> ELSE [k \in 1..rcnt |-> 255]
  /\ wptr' = 1
  /\ rptr' = 1
  /\ pc' = "wr_wchk"
  /\ trace' = <<>>
  /\ ret' = -1
  /\ NoLocals
  /\ UNCHANGED <<scl, sda, slave, sreg, fn, dlyv, scanv, stretch>>

wr_wchk ==
  /\ pc = "wr_wchk" /\ fn = "none"
  /\ pc' = IF HasWrite(args.wnull, write_count) THEN "wr_wstart" ELSE "wr_rchk"
  /\ UNCHANGED <<busv, fn, callv, primv, dlyv, scanv, stretch>>

wr_wstart ==
  /\ pc = "wr_wstart" /\ fn = "none"
  /\ fn' = "start_sda"
  /\ pc' = "wr_waddr"
  /\ UNCHANGED <<busv, callv, primv, dlyv, scanv, stretch>>

wr_waddr ==
  /\ pc = "wr_waddr" /\ fn = "none"
  /\ data_byte' = AddrW(args.addr)
  /\ i' = 0
  /\ fn' = "w8_bit"
  /\ pc' = "wr_wloop"
  /\ UNCHANGED <<busv, callv, ack, ackarg, dlyv, scanv, stretch>>

wr_wloop_m ==
  /\ pc = "wr_wloop" /\ fn = "none"
  /\ IF write_count # 0 /\ ~ack
     THEN /\ data_byte' = args.wbuf[wptr]
          /\ i' = 0
          /\ fn' = "w8_bit"
          /\ pc' = "wr_wnext"
     ELSE /\ pc' = "wr_wstop"
          /\ UNCHANGED <<data_byte, i, fn>>
  /\ UNCHANGED <<busv, callv, ack, ackarg, dlyv, scanv, stretch>>

wr_wloop ==
  /\ pc = "wr_wloop" /\ fn = "none"
  /\ IF write_count # 0
     THEN /\ data_byte' = args.wbuf[wptr]
          /\ i' = 0
          /\ fn' = "w8_bit"
          /\ pc' = "wr_wnext"
     ELSE /\ pc' = "wr_wstop"
          /\ UNCHANGED <<data_byte, i, fn>>
  /\ UNCHANGED <<busv, callv, ack, ackarg, dlyv, scanv, stretch>>

wr_wnext ==
  /\ pc = "wr_wnext" /\ fn = "none"
  /\ wptr' = wptr + 1
  /\ write_count' = write_count - 1
  /\ pc' = "wr_wloop"
  /\ UNCHANGED <<busv, fn, args, read_count, rptr, rbuf, rc, ret, primv, dlyv, scanv, stretch>>

wr_wstop_m ==
  /\ pc = "wr_wstop" /\ fn = "none"
  /\ pc' = "wr_rchk"
  /\ UNCHANGED <<busv, fn, callv, primv, dlyv, scanv, stretch>>

wr_wstop ==
  /\ pc = "wr_wstop" /\ fn = "none"
  /\ fn' = "stop_sda"
  /\ pc' = "wr_rchk"
  /\ UNCHANGED <<busv, callv, primv, dlyv, scanv, stretch>>

wr_rchk ==
  /\ pc = "wr_rchk" /\ fn = "none"
  /\ pc' = IF HasRead(args.rnull, read_count) THEN "wr_rstart" ELSE "wr_ret"
  /\ UNCHANGED <<busv, fn, callv, primv, dlyv, scanv, stretch>>

wr_rstart ==
  /\ pc = "wr_rstart" /\ fn = "none"
  /\ fn' = "start_sda"
  /\ pc' = "wr_raddr"
  /\ UNCHANGED <<busv, callv, primv, dlyv, scanv, stretch>>

wr_raddr ==
  /\ pc = "wr_raddr" /\ fn = "none"
  /\ data_byte' = AddrR(args.addr)
  /\ i' = 0
  /\ fn' = "w8_bit"
  /\ pc' = "wr_rloop"
  /\ UNCHANGED <<busv, callv, ack, ackarg, dlyv, scanv, stretch>>

\* soft_i2c_read8(false); the slave loads the byte it is going to send
wr_rloop ==
  /\ pc = "wr_rloop" /\ fn = "none"
  /\ IF read_count # 0
     THEN /\ ackarg' = FALSE
          /\ \E sb \in SlaveBytes : sreg' = Bits(sb)
          /\ fn' = "r8_rel"
          /\ pc' = "wr_rstore"
     ELSE /\ pc' = "wr_rstop"
          /\ UNCHANGED <<ackarg, sreg, fn>>
  /\ UNCHANGED <<scl, sda, slave, trace, callv, i, data_byte, ack, dlyv, scanv, stretch>>

wr_rstore ==
  /\ pc = "wr_rstore" /\ fn = "none"
  /\ rbuf' = [rbuf EXCEPT ![rptr] = data_byte]
  /\ rptr' = rptr + 1
  /\ read_count' = read_count - 1
  /\ pc' = "wr_rloop"
  /\ UNCHANGED <<busv, fn, args, write_count, wptr, rc, ret, primv, dlyv, scanv, stretch>>

wr_rstop ==
  /\ pc = "wr_rstop" /\ fn = "none"
  /\ fn' = "stop_sda"
  /\ pc' = "wr_ret"
  /\ UNCHANGED <<busv, callv, primv, dlyv, scanv, stretch>>

wr_ret ==
  /\ pc = "wr_ret" /\ fn = "none"
  /\ ret' = 0
  /\ pc' = "idle"
  /\ UNCHANGED <<busv, fn, args, write_count, wptr, read_count, rptr, rbuf,
                 rc, primv, dlyv, scanv, stretch>>

(***************************************************************************)
(* soft_i2c_start() followed immediately by soft_i2c_stop()                *)
(***************************************************************************)
call_start_stop ==
  /\ pc = "idle"
  /\ args' = [NoArgs EXCEPT !.op = "ss"]
  /\ pc' = "ss_start"
  /\ trace' = <<>>
  /\ ret' = -1
  /\ NoLocals
  /\ write_count' = 0 /\ read_count' = 0 /\ wptr' = 1 /\ rptr' = 1
  /\ rbuf' = <<>>
  /\ UNCHANGED <<scl, sda, slave, sreg, fn, dlyv, scanv, stretch>>

ss_start ==
  /\ pc = "ss_start" /\ fn = "none"
  /\ fn' = "start_sda"
  /\ pc' = "ss_stop"
  /\ UNCHANGED <<busv, callv, primv, dlyv, scanv, stretch>>

ss_stop ==
  /\ pc = "ss_stop" /\ fn = "none"
  /\ fn' = "stop_sda"
  /\ pc' = "ss_ret"
  /\ UNCHANGED <<busv, callv, primv, dlyv, scanv, stretch>>

ss_ret ==
  /\ pc = "ss_ret" /\ fn = "none"
  /\ pc' = "idle"
  /\ UNCHANGED <<busv, fn, callv, primv, dlyv, scanv, stretch>>

(***************************************************************************)
(* The bus master: any sequence of calls, starting from an idle bus.       *)
(***************************************************************************)
DelayOff ==
  /\ CNT = 0 /\ start_us = 0 /\ delay_us = 0 /\ elapsed = 0 /\ dpc = "off"

\* no slave holds SCL, no scan is running
ScanOff ==
  /\ stretch = FALSE
  /\ spc = "off" /\ scan_addr = 0 /\ probed = <<>> /\ cells = <<>>
  /\ devices = {}

Init ==
  /\ scl = TRUE /\ sda = TRUE /\ slave = TRUE
  /\ sreg = <<>> /\ trace = <<>>
  /\ pc = "idle" /\ fn = "none"
  /\ args = NoArgs
  /\ write_count = 0 /\ wptr = 1 /\ read_count = 0 /\ rptr = 1
  /\ rbuf = <<>> /\ rc = FALSE /\ ret = -1
  /\ i = 0 /\ data_byte = 0 /\ ack = FALSE /\ ackarg = FALSE
  /\ DelayOff
  /\ ScanOff

Next ==
  \/ call_device_ready \/ dr_start \/ dr_write \/ dr_stop \/ dr_ret
  \/ call_write_read \/ wr_wchk \/ wr_wstart \/ wr_waddr \/ wr_wloop
  \/ wr_wnext \/ wr_wstop \/ wr_rchk \/ wr_rstart \/ wr_raddr \/ wr_rloop
  \/ wr_rstore \/ wr_rstop \/ wr_ret
  \/ call_start_stop \/ ss_start \/ ss_stop \/ ss_ret
  \/ start_sda \/ start_scl
  \/ stop_sda \/ stop_scl \/ stop_sda2
  \/ w8_bit \/ w8_high \/ w8_low \/ w8_rel \/ w8_ackhigh \/ w8_acklow
  \/ r8_rel \/ r8_high \/ r8_low \/ r8_ack \/ r8_ackhigh \/ r8_acklow

Spec == Init /\ [][Next]_vars

(***************************************************************************)
(* One byte through the bus: soft_i2c_write8(b) entered with SCL low, the  *)
(* slave latching SDA in each data high phase, then soft_i2c_read8 with    *)
(* the slave presenting the latched levels in the same order.              *)
(***************************************************************************)
IsBit(e) == e \in {"0", "1"}
\* the levels the slave latched in the first eight undisturbed high phases
Latched(t) == [k \in 1..8 |-> SelectSeq(t, IsBit)[k] = "1"]

hb_write ==
  /\ pc = "hb_write" /\ fn = "none"
  /\ data_byte' = args.byte
  /\ i' = 0
  /\ fn' = "w8_bit"
  /\ pc' = "hb_read"
  /\ UNCHANGED <<busv, callv, ack, ackarg, dlyv, scanv, stretch>>

hb_read ==
  /\ pc = "hb_read" /\ fn = "none"
  /\ sreg' = Latched(trace)
  /\ \E a \in BOOLEAN : ackarg' = a
  /\ fn' = "r8_rel"
  /\ pc' = "hb_done"
  /\ UNCHANGED <<scl, sda, slave, trace, callv, i, data_byte, ack, dlyv, scanv, stretch>>

hb_done ==
  /\ pc = "hb_done" /\ fn = "none"
  /\ ret' = data_byte
  /\ pc' = "hb_end"
  /\ UNCHANGED <<busv, fn, args, write_count, wptr, read_count, rptr, rbuf,
                 rc, primv, dlyv, scanv, stretch>>

InitByte ==
  /\ scl = FALSE /\ sda \in BOOLEAN /\ slave = TRUE
  /\ sreg = <<>> /\ trace = <<>>
  /\ pc = "hb_write" /\ fn = "none"
  /\ \E b \in Byte : args = [NoArgs EXCEPT !.op = "byte", !.byte = b]
  /\ write_count = 0 /\ wptr = 1 /\ read_count = 0 /\ rptr = 1
  /\ rbuf = <<>> /\ rc = FALSE /\ ret = -1
  /\ i = 0 /\ data_byte = 0 /\ ack = FALSE /\ ackarg = FALSE
  /\ DelayOff
  /\ ScanOff

NextByte ==
  \/ hb_write \/ hb_read \/ hb_done
  \/ w8_bit \/ w8_high \/ w8_low \/ w8_rel \/ w8_ackhigh \/ w8_acklow
  \/ r8_rel \/ r8_high \/ r8_low \/ r8_ack \/ r8_ackhigh \/ r8_acklow

SpecByte == InitByte /\ [][NextByte]_vars

(***************************************************************************)
(* i2c_delay_us(delay_us) against the free running 16 bit counter TIM4.    *)
(* TIMx->CNT is a 32 bit register holding 0..65535; start_us is a          *)
(* uint16_t.  In TIMx->CNT - start_us the uint16_t is promoted to int and  *)
(* converted to unsigned int, so the difference and the comparison are     *)
(* unsigned 32 bit.  A 32 bit value is kept as two 16 bit halves.          *)
(***************************************************************************)
Half == 65536

\* (uint32_t) a - (uint32_t) b  for a, b in 0..65535
Sub32(a, b) == [lo |-> (a - b + Half) % Half,
                hi |-> IF a < b THEN Half - 1 ELSE 0]

\* x < (uint32_t) d  for d in 0..65535
Less32(x, d) == x.hi = 0 /\ x.lo < d

\* uint16_t start_us = TIMx->CNT;
delay_read_start ==
  /\ dpc = "d_entry"
  /\ start_us' = CNT % Half
  /\ elapsed' = 0
  /\ dpc' = "d_spin"
  /\ UNCHANGED <<busv, pc, fn, callv, primv, scanv, stretch, CNT, delay_us>>

\* the counter counts on while the loop spins
delay_tick ==
  /\ dpc = "d_spin"
  /\ elapsed < MaxElapsed
  /\ CNT' = (CNT + 1) % Half
  /\ elapsed' = elapsed + 1
  /\ UNCHANGED <<busv, pc, fn, callv, primv, scanv, stretch, start_us, delay_us, dpc>>

\* while((TIMx->CNT - start_us) < delay_us);  the test that ends the loop
delay_exit ==
  /\ dpc = "d_spin"
  /\ ~ Less32(Sub32(CNT, start_us), delay_us)
  /\ dpc' = "d_done"
  /\ UNCHANGED <<busv, pc, fn, callv, primv, scanv, stretch, CNT, start_us, delay_us, elapsed>>

InitDelay ==
  /\ scl = TRUE /\ sda = TRUE /\ slave = TRUE
  /\ sreg = <<>> /\ trace = <<>>
  /\ pc = "idle" /\ fn = "none"
  /\ args = NoArgs
  /\ write_count = 0 /\ wptr = 1 /\ read_count = 0 /\ rptr = 1
  /\ rbuf = <<>> /\ rc = FALSE /\ ret = -1
  /\ i = 0 /\ data_byte = 0 /\ ack = FALSE /\ ackarg = FALSE
  /\ CNT \in StartSet
  /\ delay_us \in 0..MaxDelay
  /\ start_us = 0 /\ elapsed = 0 /\ dpc = "d_entry"
  /\ ScanOff

NextDelay == delay_read_start \/ delay_tick \/ delay_exit

SpecDelay == InitDelay /\ [][NextDelay]_vars

(***************************************************************************)
(* Observers used by the properties                                        *)
(***************************************************************************)
\* what a bus analyser sees: everything but the SDA set-up with SCL low
\* ("d") and the SCL rising edges ("r")
IsBusEvent(e) == e \notin {"d", "r"}
Bus(t) == SelectSeq(t, IsBusEvent)
IsCond(e) == e \in {"S", "P"}
\* a START has been issued and no STOP since
Started(t) == LET c == SelectSeq(t, IsCond) IN c # <<>> /\ Last(c) = "S"
Count(t, e) == Cardinality({k \in 1..Len(t) : t[k] = e})
\* level of bit number k (7 = most significant) of byte b, as logged
BitLvl(b, k) == IF (b \div Pow2(k)) % 2 = 1 THEN "1" ELSE "0"

W8Labels == {"w8_bit", "w8_high", "w8_low", "w8_rel", "w8_ackhigh", "w8_acklow"}
R8Labels == {"r8_rel", "r8_high", "r8_low", "r8_ack", "r8_ackhigh", "r8_acklow"}

\* C1: the master changes SDA while it has SCL released only in the first
\* step of soft_i2c_start (high to low) and in the last step of
\* soft_i2c_stop (low to high), over any sequence of calls from an idle bus.
C1_SdaStableWhileSclHigh ==
  [][ (scl /\ sda' # sda) =>
        \/ (fn = "start_sda" /\ sda /\ ~sda' /\ scl')
        \/ (fn = "stop_sda2" /\ ~sda /\ sda' /\ scl') ]_vars

C1_Witness ==
  /\ pc = "idle" /\ args.op = "wr"
  /\ Count(trace, "S") = 2 /\ Count(trace, "P") = 2
  /\ rbuf = <<90>>

\* C2: soft_i2c_write8(b), entered with SCL low, makes exactly nine clock
\* pulses (SDA set-up, SCL released, SCL driven low, nine times over), ends
\* with SCL low, never writes SDA while SCL is released, and has SDA
\* released during the ninth (ACK) high phase.
C2_Write8NinePulses ==
  /\ (pc = "hb_read" /\ fn = "none") =>
       /\ ~scl
       /\ Len(trace) = 27
       /\ Count(trace, "r") = 9
       /\ Count(trace, "0") + Count(trace, "1") = 9
       /\ \A k \in 0..8 : /\ trace[3 * k + 1] = "d"
                          /\ trace[3 * k + 2] = "r"
                          /\ trace[3 * k + 3] \in {"0", "1"}
  /\ (pc = "hb_read" /\ fn = "w8_acklow") => (scl /\ sda)

C2_Witness ==
  pc = "hb_read" /\ fn = "none" /\ args.byte = 165 /\ ~ack /\ Len(trace) = 27

\* C3: the write phase of i2c_write_read(a, w, n, ...) with a non-empty
\* buffer shows on the bus START, the byte 2*a, an ACK clock, w[0..n-1] in
\* order each followed by an ACK clock, STOP; every byte most significant
\* bit first.  For a = 0x68, w = [0x00]: START 11010000 A 00000000 A STOP.
C3_WriteFrame ==
  (pc = "wr_rchk" /\ fn = "none" /\ ~args.wnull /\ args.wcount > 0) =>
    LET t == Bus(trace)
        n == args.wcount
        byte(j) == IF j = 0 THEN 2 * args.addr ELSE args.wbuf[j]
    IN /\ Len(t) = 3 + 9 * (n + 1)
       /\ t[1] = "S" /\ t[2] = "f" /\ t[Len(t)] = "P"
       /\ \A j \in 0..n :
            /\ \A k \in 0..7 : t[2 + 9 * j + k + 1] = BitLvl(byte(j), 7 - k)
            /\ t[2 + 9 * j + 9] \in {"0", "1"}
       /\ (args.addr = 104 /\ args.wbuf = <<0>>) =>
            t = <<"S", "f", "1", "1", "0", "1", "0", "0", "0", "0", t[11],
                  "0", "0", "0", "0", "0", "0", "0", "0", t[20], "P">>

C3_Witness ==
  /\ pc = "wr_rchk" /\ fn = "none"
  /\ args.addr = 104 /\ ~args.wnull /\ args.wbuf = <<0, 165>>
  /\ Count(trace, "P") = 1

\* C4: in the read phase of i2c_write_read the master does not drive SDA
\* low during the high phase of the ninth clock of soft_i2c_read8 (NACK).
C4_ReadNack ==
  (args.op = "wr" /\ fn = "r8_acklow") => sda

\* C5: i2c_device_ready(a) shows START, the byte 2*a, one ACK clock, STOP,
\* and returns true exactly when SDA read low in that ACK clock.
C5_DeviceReady ==
  (pc = "idle" /\ args.op = "ready") =>
    LET t == Bus(trace)
    IN /\ Len(t) = 12
       /\ t[1] = "S" /\ t[2] = "f" /\ t[12] = "P"
       /\ \A k \in 0..7 : t[3 + k] = BitLvl(2 * args.addr, 7 - k)
       /\ t[11] \in {"0", "1"}
       /\ (ret = 1) <=> (t[11] = "0")
       /\ (ret = 0) <=> (t[11] = "1")

C5_Witness ==
  /\ pc = "idle" /\ args.op = "ready" /\ args.addr = I2C_ADDRESS_MAX
  /\ ret = 1 /\ Bus(trace)[11] = "0"

\* C6: a byte written by soft_i2c_write8 and played back by the slave, level
\* by level in the same order, is returned unchanged by soft_i2c_read8; the
\* first level on the wire is bit 7.
C6_RoundTrip ==
  /\ (pc = "hb_read" /\ fn = "none") =>
       Latched(trace)[1] = (args.byte >= 128)
  /\ (pc = "hb_end") => ret = args.byte

C6_Witness ==
  pc = "hb_end" /\ args.byte = 178 /\ ret = 178

\* C7: i2c_delay_us(d) returns only after at least d counter ticks since it
\* read the start value, also across the 65535 -> 0 rollover.
C7_DelayAtLeast ==
  (dpc = "d_done") => elapsed >= delay_us

\* C8: after every completed i2c_device_ready / i2c_write_read both lines
\* are released, whatever was sampled; and soft_i2c_write8 / soft_i2c_read8
\* only run between a START and the next STOP.
C8_StopReturnsToIdle ==
  /\ (pc = "idle" /\ args.op \in {"ready", "wr"}) => (scl /\ sda)
  /\ (args.op \in {"ready", "wr"} /\ fn \in (W8Labels \cup R8Labels)) =>
       Started(trace)

C8_Witness ==
  /\ pc = "idle" /\ args.op = "wr" /\ ack
  /\ Count(trace, "P") = 2 /\ Count(trace, "1") > 9

\* C9: soft_i2c_start() then soft_i2c_stop() from an idle bus leaves both
\* lines released; SDA changes with SCL released only for the START fall
\* and the STOP rise; no step changes SCL and SDA together.
C9_StartStop ==
  /\ [] ((pc = "idle" /\ args.op = "ss") =>
           (scl /\ sda /\ Bus(trace) = <<"S", "f", "P">>))
  /\ [][ args'.op = "ss" => ~ (scl' # scl /\ sda' # sda) ]_vars

C9_Witness ==
  pc = "idle" /\ args.op = "ss" /\ Len(trace) = 5

\* C10: i2c_write_read makes no pin write in a phase whose buffer is NULL or
\* whose count is 0; with both absent it writes no pin and returns 0.
C10_SkipAbsentPhase ==
  /\ (args.op = "wr" /\ pc = "wr_rchk" /\ (args.wnull \/ args.wcount = 0)) =>
       trace = <<>>
  /\ (args.op = "wr" /\ pc = "idle" /\ (args.rnull \/ args.rcount = 0)) =>
       Len(trace) = IF args.wnull \/ args.wcount = 0 THEN 0
                    ELSE 5 + 27 * (args.wcount + 1)
  /\ (args.op = "wr" /\ pc = "idle" /\ (args.wnull \/ args.wcount = 0)
        /\ (args.rnull \/ args.rcount = 0)) =>
       (trace = <<>> /\ ret = 0 /\ scl /\ sda)

C10_Witness ==
  /\ args.op = "wr" /\ pc = "idle" /\ ret = 0 /\ trace = <<>>
  /\ ~args.wnull /\ args.wcount = 0 /\ args.rnull /\ args.rcount = 1

\* number of bus events of one phase that moves n bytes after the address
PhaseLen(n) == 3 + 9 * (n + 1)

\* C11: whatever levels are sampled on the ACK clocks, i2c_write_read sends
\* the address and all write_count bytes and a STOP in the write phase,
\* does all read_count byte reads and a STOP in the read phase, returns 0.
C11_NackIgnored ==
  (pc = "idle" /\ args.op = "wr") =>
    LET t  == Bus(trace)
        hw == ~args.wnull /\ args.wcount > 0
        hr == ~args.rnull /\ args.rcount > 0
        wl == IF hw THEN PhaseLen(args.wcount) ELSE 0
        rl == IF hr THEN PhaseLen(args.rcount) ELSE 0
    IN /\ ret = 0
       /\ Len(t) = wl + rl
       /\ Count(t, "S") = Count(t, "P")
       /\ Count(t, "P") = (IF hw THEN 1 ELSE 0) + (IF hr THEN 1 ELSE 0)
       /\ hw => /\ t[wl] = "P"
                /\ write_count = 0
                /\ \A j \in 1..args.wcount : \A k \in 0..7 :
                     t[2 + 9 * j + k + 1] = BitLvl(args.wbuf[j], 7 - k)
       /\ hr => /\ t[wl + rl] = "P"
                /\ Len(rbuf) = args.rcount
                /\ read_count = 0

\* the address byte and every data byte of the write phase were NACKed
C11_Witness ==
  /\ pc = "idle" /\ args.op = "wr" /\ ret = 0
  /\ ~args.wnull /\ args.wcount = 2 /\ ~args.rnull /\ args.rcount = 1
  /\ Bus(trace)[11] = "1" /\ Bus(trace)[20] = "1" /\ Bus(trace)[29] = "1"
  /\ Bus(trace)[PhaseLen(2) + 11] = "1"

\* C12 as claimed: when soft_i2c_read8(ack) returns, for either value of
\* ack, the master has SDA released.
C12_ReleasedAfterRead8 ==
  (pc = "hb_done" /\ fn = "none") => sda

\* C12 as the code has it: when soft_i2c_read8(ack) returns, SCL is low and
\* SDA is still at the level written for the ACK bit: released when ack is
\* true, driven low when ack is false.  No pin is written after the ACK
\* clock.
C12_AckLevelKeptAfterRead8 ==
  (pc = "hb_done" /\ fn = "none") =>
    /\ ~scl
    /\ sda = ackarg
    /\ Last(trace) = Lvl(ackarg)

C12_Witness ==
  pc = "hb_done" /\ fn = "none" /\ ~ackarg /\ ~sda /\ ~scl

\* C16: soft_i2c_read8, entered with SCL low, releases SDA before the first
\* pulse, makes eight data pulses, has SDA released in each of their high
\* phases, returns the byte whose bit 7-k is the level of the k-th high
\* phase, then makes exactly one more pulse (ACK) and ends with SCL low.
C16_Read8Samples ==
  /\ (pc = "hb_done" /\ fn \in {"r8_high", "r8_low"}) => sda
  /\ (pc = "hb_done" /\ fn = "none") =>
       LET t == SubSeq(trace, 28, Len(trace))
       IN /\ ~scl
          /\ Len(t) = 20
          /\ t[1] = "d"
          /\ \A k \in 0..7 : /\ t[2 + 2 * k] = "r"
                             /\ t[3 + 2 * k] = BitLvl(data_byte, 7 - k)
                             /\ t[3 + 2 * k] = Lvl(Latched(trace)[k + 1])
          /\ t[18] = "d" /\ t[19] = "r" /\ t[20] \in {"0", "1"}
          /\ Count(t, "r") = 9

C16_Witness ==
  pc = "hb_done" /\ fn = "none" /\ args.byte = 77 /\ data_byte = 77 /\ ackarg

(***************************************************************************)
(* A slave that stretches the clock: it may hold the SCL line low, and     *)
(* let it go, at any time.  The callers are i2c_device_ready and the two   *)
(* test routines cl_i2c_write and cl_i2c_read.  The processor runs the     *)
(* single thread of the master without stopping (weak fairness); nothing   *)
(* is assumed of the slave.                                                *)
(***************************************************************************)
slave_hold ==
  /\ ~stretch
  /\ stretch' = TRUE
  /\ UNCHANGED <<busv, pc, fn, callv, primv, dlyv, scanv>>

slave_release ==
  /\ stretch
  /\ stretch' = FALSE
  /\ UNCHANGED <<busv, pc, fn, callv, primv, dlyv, scanv>>

\* uint8_t index = 0; i2c_write_read(DS3231_ADDRESS, &index, 1, NULL, 0);
cl_i2c_write ==
  /\ pc = "idle"
  /\ args' = [NoArgs EXCEPT !.op = "wr", !.addr = DS3231_ADDRESS,
                !.wnull = FALSE, !.wbuf = <<0>>, !.wcount = 1]
  /\ write_count' = 1 /\ read_count' = 0
  /\ rbuf' = <<>>
  /\ wptr' = 1 /\ rptr' = 1
  /\ pc' = "wr_wchk"
  /\ trace' = <<>>
  /\ ret' = -1
  /\ NoLocals
  /\ UNCHANGED <<scl, sda, slave, sreg, fn, dlyv, scanv, stretch>>

\* uint8_t data = 0xFF; i2c_write_read(DS3231_ADDRESS, NULL, 0, &data, 1);
cl_i2c_read ==
  /\ pc = "idle"
  /\ args' = [NoArgs EXCEPT !.op = "wr", !.addr = DS3231_ADDRESS,
                !.rnull = FALSE, !.rcount = 1]
  /\ write_count' = 0 /\ read_count' = 1
  /\ rbuf' = <<255>>
  /\ wptr' = 1 /\ rptr' = 1
  /\ pc' = "wr_wchk"
  /\ trace' = <<>>
  /\ ret' = -1
  /\ NoLocals
  /\ UNCHANGED <<scl, sda, slave, sreg, fn, dlyv, scanv, stretch>>

MasterStretch ==
  \/ call_device_ready \/ dr_start \/ dr_write \/ dr_stop \/ dr_ret
  \/ cl_i2c_write \/ cl_i2c_read \/ wr_wchk \/ wr_wstart \/ wr_waddr
  \/ wr_wloop \/ wr_wnext \/ wr_wstop \/ wr_rchk \/ wr_rstart \/ wr_raddr
  \/ wr_rloop \/ wr_rstore \/ wr_rstop \/ wr_ret
  \/ start_sda \/ start_scl
  \/ stop_sda \/ stop_scl \/ stop_sda2
  \/ w8_bit \/ w8_high \/ w8_low \/ w8_rel \/ w8_ackhigh \/ w8_acklow
  \/ r8_rel \/ r8_high \/ r8_low \/ r8_ack \/ r8_ackhigh \/ r8_acklow

InitStretch ==
  /\ scl = TRUE /\ sda = TRUE /\ slave = TRUE
  /\ sreg = <<>> /\ trace = <<>>
  /\ pc = "idle" /\ fn = "none"
  /\ args = NoArgs
  /\ write_count = 0 /\ wptr = 1 /\ read_count = 0 /\ rptr = 1
  /\ rbuf = <<>> /\ rc = FALSE /\ ret = -1
  /\ i = 0 /\ data_byte = 0 /\ ack = FALSE /\ ackarg = FALSE
  /\ DelayOff
  /\ stretch \in BOOLEAN
  /\ spc = "off" /\ scan_addr = 0 /\ probed = <<>> /\ cells = <<>>
  /\ devices = {}

NextStretch ==
  \/ call_device_ready \/ dr_start \/ dr_write \/ dr_stop \/ dr_ret
  \/ cl_i2c_write \/ cl_i2c_read \/ wr_wchk \/ wr_wstart \/ wr_waddr
  \/ wr_wloop \/ wr_wnext \/ wr_wstop \/ wr_rchk \/ wr_rstart \/ wr_raddr
  \/ wr_rloop \/ wr_rstore \/ wr_rstop \/ wr_ret
  \/ start_sda \/ start_scl
  \/ stop_sda \/ stop_scl \/ stop_sda2
  \/ w8_bit \/ w8_high \/ w8_low \/ w8_rel \/ w8_ackhigh \/ w8_acklow
  \/ r8_rel \/ r8_high \/ r8_low \/ r8_ack \/ r8_ackhigh \/ r8_acklow
  \/ slave_hold \/ slave_release

SpecStretch == InitStretch /\ [][NextStretch]_vars /\ WF_vars(MasterStretch)

\* C13 as claimed: while a slave holds SCL low, i2c_write_read and
\* i2c_device_ready do not return.
C13_HangsWhileStretched ==
  [][ (stretch /\ stretch') => ~ (pc \in {"dr_ret", "wr_ret"} /\ pc' = "idle") ]_vars

\* C13 as the code has it: the master never reads SCL, so a slave that
\* holds SCL low for ever does not stop it: every call that was started
\* returns.
C13_ReturnsDespiteStretch ==
  ([]stretch) => ((pc # "idle") ~> (pc = "idle"))

\* a call has returned with SCL held low by the slave
C13_Witness ==
  /\ stretch /\ pc = "idle" /\ args.op = "wr" /\ ret = 0
  /\ rbuf = <<90>> /\ scl /\ ~soft_i2c_scl_read

(***************************************************************************)
(* cl_i2c_scan.  What it prints is kept as the sequence of table cells,    *)
(* <<address, kind>> with kind "blank" (out of range), "found" or "none";  *)
(* the title, the header and the row labels are left out.                  *)
(***************************************************************************)
DeviceSets == {{}, {DS3231_ADDRESS}, {I2C_ADDRESS_MIN, I2C_ADDRESS_MAX}}

\* uint16_t addr
U16(x) == x % 65536

\* addr < I2C_ADDRESS_MIN || addr > I2C_ADDRESS_MAX
OutOfRange_m(a) == a > I2C_ADDRESS_MAX
OutOfRange(a) == a < I2C_ADDRESS_MIN \/ a > I2C_ADDRESS_MAX

\* for(uint16_t addr=0; ...
scan_begin ==
  /\ spc = "begin"
  /\ scan_addr' = 0
  /\ spc' = "test"
  /\ UNCHANGED <<busv, pc, fn, callv, primv, dlyv, probed, cells, devices,
                 stretch>>

scan_blank_m ==
  /\ spc = "test"
  /\ scan_addr <= I2C_ADDRESS_MAX
  /\ OutOfRange(scan_addr)
  /\ scan_addr' = U16(scan_addr + 1)
  /\ UNCHANGED <<busv, pc, fn, callv, primv, dlyv, spc, probed, cells, devices,
                 stretch>>

\* addr<=I2C_ADDRESS_MAX, out of range: printf("   "); continue; addr++
scan_blank ==
  /\ spc = "test"
  /\ scan_addr <= I2C_ADDRESS_MAX
  /\ OutOfRange(scan_addr)
  /\ cells' = Append(cells, <<scan_addr, "blank">>)
  /\ scan_addr' = U16(scan_addr + 1)
  /\ UNCHANGED <<busv, pc, fn, callv, primv, dlyv, spc, probed, devices,
                 stretch>>

\* addr<=I2C_ADDRESS_MAX, in range: i2c_device_ready(addr)
scan_probe ==
  /\ spc = "test"
  /\ scan_addr <= I2C_ADDRESS_MAX
  /\ ~ OutOfRange(scan_addr)
  /\ probed' = Append(probed, scan_addr)
  /\ args' = [NoArgs EXCEPT !.op = "ready", !.addr = U8(scan_addr)]
  /\ pc' = "dr_start"
  /\ trace' = <<>>
  /\ ret' = -1
  /\ NoLocals
  /\ write_count' = 0 /\ read_count' = 0 /\ wptr' = 1 /\ rptr' = 1
  /\ rbuf' = <<>>
  /\ spc' = "cell"
  /\ UNCHANGED <<scl, sda, slave, sreg, fn, dlyv, scan_addr, cells, devices,
                 stretch>>

\* printf("%02X ",addr) or printf("-- "); addr++
scan_cell ==
  /\ spc = "cell"
  /\ pc = "idle" /\ fn = "none"
  /\ cells' = Append(cells, <<scan_addr, IF ret # 0 THEN "found" ELSE "none">>)
  /\ scan_addr' = U16(scan_addr + 1)
  /\ spc' = "test"
  /\ UNCHANGED <<busv, pc, fn, callv, primv, dlyv, probed, devices, stretch>>

\* addr<=I2C_ADDRESS_MAX fails: printf("\n"); return 0;
scan_end ==
  /\ spc = "test"
  /\ ~ (scan_addr <= I2C_ADDRESS_MAX)
  /\ spc' = "done"
  /\ UNCHANGED <<busv, pc, fn, callv, primv, dlyv, scan_addr, probed, cells,
                 devices, stretch>>

InitScan ==
  /\ scl = TRUE /\ sda = TRUE /\ slave = TRUE
  /\ sreg = <<>> /\ trace = <<>>
  /\ pc = "idle" /\ fn = "none"
  /\ args = NoArgs
  /\ write_count = 0 /\ wptr = 1 /\ read_count = 0 /\ rptr = 1
  /\ rbuf = <<>> /\ rc = FALSE /\ ret = -1
  /\ i = 0 /\ data_byte = 0 /\ ack = FALSE /\ ackarg = FALSE
  /\ DelayOff
  /\ stretch = FALSE
  /\ spc = "begin" /\ scan_addr = 0 /\ probed = <<>> /\ cells = <<>>
  /\ devices \in DeviceSets

NextScan ==
  \/ scan_begin \/ scan_blank \/ scan_probe \/ scan_cell \/ scan_end
  \/ dr_start \/ dr_write \/ dr_stop \/ dr_ret
  \/ start_sda \/ start_scl
  \/ stop_sda \/ stop_scl \/ stop_sda2
  \/ w8_bit \/ w8_high \/ w8_low \/ w8_rel \/ w8_ackhigh \/ w8_acklow

\* the scan is one thread that the processor keeps running
SpecScan == InitScan /\ [][NextScan]_vars /\ WF_vars(NextScan)

C15_AllReservedBlank ==
  (spc = "done") =>
    \A a \in (0..2) \cup (120..127) :
      \E k \in 1..Len(cells) : cells[k] = <<a, "blank">>

\* C15 as the code has it: the scan prints one cell for each address
\* 0x00..0x77 in order, blank exactly for 0x00..0x02; the loop ends at
\* 0x77, so no cell at all is printed for 0x78..0x7F.
C15_LowReservedBlank ==
  (spc = "done") =>
    /\ Len(cells) = 120
    /\ \A k \in 1..Len(cells) :
         /\ cells[k][1] = k - 1
         /\ (cells[k][2] = "blank") <=> (k - 1 \in 0..2)
         /\ (cells[k][2] = "found") <=> (k - 1 \in devices)
    /\ \A a \in 120..127 : \A k \in 1..Len(cells) : cells[k][1] # a

C15_Witness ==
  /\ spc = "done" /\ devices = {I2C_ADDRESS_MIN, I2C_ADDRESS_MAX}
  /\ cells[1] = <<0, "blank">> /\ cells[3] = <<2, "blank">>
  /\ cells[4] = <<3, "found">> /\ Last(cells) = <<119, "found">>

\* the call has a write phase / a read phase
HasW == ~args.wnull /\ args.wcount > 0
HasR == ~args.rnull /\ args.rcount > 0
\* bus events of the write phase of the call
WLen == IF HasW THEN PhaseLen(args.wcount) ELSE 0

NoRepeatedStart(c) ==
  \A k \in 1..(Len(c) - 1) : (c[k] = "S") => (c[k + 1] = "P")

\* C18: with both buffers non-empty the call makes START, STOP, START, STOP
\* in that order; a START is never issued while a transaction is open, and
\* each START is issued with both lines released.
C18_TwoSeparatePhases ==
  /\ (pc = "idle" /\ args.op = "wr" /\ HasW /\ HasR) =>
       SelectSeq(trace, IsCond) = <<"S", "P", "S", "P">>
  /\ (args.op = "wr") => NoRepeatedStart(SelectSeq(trace, IsCond))
  /\ (args.op = "wr" /\ pc = "wr_raddr" /\ fn = "start_sda") =>
       (scl /\ sda /\ ~Started(trace) /\ Count(trace, "P") = Count(trace, "S"))

C18_Witness ==
  /\ pc = "wr_raddr" /\ fn = "start_sda" /\ HasW /\ args.wcount = 2
  /\ Count(trace, "P") = 1 /\ scl /\ sda

\* number of clock pulses (high phases that show a bit) in t[p+1..q-1]
Pulses(t, p, q) == Cardinality({k \in (p + 1)..(q - 1) : IsBit(t[k])})

\* C19: between a START and the next STOP the number of clock pulses is a
\* multiple of 9; in the ninth pulse of soft_i2c_write8 the master has SDA
\* released and reads it; in the eight data pulses of soft_i2c_read8 it has
\* SDA released, and it drives SDA (to the ack level) for the ninth only.
C19_NinthBitOpposite ==
  (args.op \in {"ready", "wr"}) =>
    /\ (pc = "idle") =>
         LET t == Bus(trace)
         IN \A p, q \in 1..Len(t) :
              (p < q /\ t[p] = "S" /\ t[q] = "P"
                 /\ \A k \in (p + 1)..(q - 1) : ~IsCond(t[k]))
              => (Pulses(t, p, q) % 9 = 0 /\ Pulses(t, p, q) >= 9)
    /\ (fn = "w8_acklow") => (scl /\ sda /\ ack = slave)
    /\ (fn = "r8_low") => (scl /\ sda)
    /\ (fn = "r8_acklow") => (scl /\ sda = ackarg)

C19_Witness ==
  /\ pc = "idle" /\ args.op = "wr" /\ HasW /\ HasR
  /\ Count(Bus(trace), "0") + Count(Bus(trace), "1") = 9 * (args.wcount + 3)

\* C20: in every call from an idle bus soft_i2c_start is entered with SCL
\* and SDA released and left with both low; soft_i2c_write8, soft_i2c_read8
\* and soft_i2c_stop are entered with SCL low; soft_i2c_write8 is left with
\* SCL low and SDA released.
C20_EntryExitLevels ==
  (args.op \in {"ready", "wr"}) =>
    /\ (fn = "start_sda") => (scl /\ sda)
    /\ (fn = "w8_bit" /\ i = 0) => ~scl
    /\ (fn = "r8_rel") => ~scl
    /\ (fn = "stop_sda") => ~scl
    /\ (fn = "none" /\ pc \in {"dr_write", "wr_waddr", "wr_raddr"}) =>
         (~scl /\ ~sda)
    /\ (fn = "none" /\ (\/ pc \in {"dr_stop", "wr_wloop", "wr_wnext"}
                        \/ (pc = "wr_rloop" /\ rptr = 1))) =>
         (~scl /\ sda)

C20_Witness ==
  /\ args.op = "wr" /\ fn = "none" /\ pc = "wr_rloop" /\ rptr = 1
  /\ HasW /\ Count(trace, "S") = 2 /\ ~scl /\ sda

====
